---- MODULE Spec2Model ----
(***************************************************************************)
(* Envelope-budget API: the balance-mutating request handlers of           *)
(* routes/envelopes.js and routes/transactions.js over the Sequelize        *)
(* store (tables Envelopes and Transactions).                               *)
(*                                                                          *)
(* A handler is modelled one store call (one `await`) per action.  Money    *)
(* amounts are exact integers: the rounding of the FLOAT columns is not     *)
(* modelled.  Row locks held by a store transaction that is never closed    *)
(* are not modelled either.                                                 *)
(***************************************************************************)
EXTENDS Integers, FiniteSets, Sequences, TLC

\* ------------------------------------------------------------------ bounds
MaxEnvs == 2        \* envelope ids ever assigned
MaxTxs == 2         \* transaction ids ever assigned
MaxBalance == 2     \* largest balance a request body supplies
MaxAmount == 2      \* largest amount a request body supplies
BalanceCap == 2     \* no balance-changing request is started beyond this stored balance

\* ------------------------------------------------- JSON values of a body
Num(n) == [t |-> "number", n |-> n, s |-> ""]
Str(s) == [t |-> "string", n |-> 0, s |-> s]
Undefined == [t |-> "undefined", n |-> 0, s |-> ""]

\* typeof v === 'number'
IsNumber(v) == v.t = "number"

\* JavaScript truthiness of a JSON value (!v is its negation)
Truthy(v) ==
  CASE v.t = "number" -> v.n # 0
    [] v.t = "string" -> v.s # ""
    [] OTHER -> FALSE

\* ------------------------------------------------------------- processes
SeqProcs == {1}
Procs == {1, 2}

\* the null returned by findByPk for an absent row
NoEnvelope == [id |-> 0, name |-> "", balance |-> 0]
NoTransaction == [id |-> 0, date |-> "", amount |-> 0, recipient |-> "", envelopeId |-> 0]

NoRequest ==
  [op |-> "none", id |-> 0, name |-> Undefined, balance |-> Undefined,
   date |-> Undefined, amount |-> Undefined, recipient |-> Undefined,
   envelopeId |-> Undefined, fromId |-> Undefined, toId |-> Undefined,
   budget |-> Undefined]

NoLocals ==
  [envelope |-> NoEnvelope, fromEnvelope |-> NoEnvelope, toEnvelope |-> NoEnvelope,
   transaction |-> NoTransaction, after |-> 0]

NoResponse == [status |-> 0, error |-> ""]

VARIABLES
  envelopes,      \* table Envelopes, committed rows: id -> [name, balance]
  transactions,   \* table Transactions, committed rows: id -> [date, amount, recipient, envelopeId]
  nextEnvId,      \* auto-increment of Envelopes.id
  nextTxId,       \* auto-increment of Transactions.id
  pc,             \* per request handler: the await it is suspended at
  req,            \* per request handler: req.body and req.params
  loc,            \* per request handler: its local instances
  resp,           \* per request handler: the response sent (status 0: none)
  scope,          \* per request handler: state of its store transaction t
  pending,        \* per request handler: balances written inside t, not committed
  pre,            \* per request handler: the committed tables when the request arrived
  prev,           \* what the request before the current one did to the
                  \* transaction the current request deletes
  calls,          \* per request handler: the store calls it has made so far
  envelopesData   \* in-memory variant: the module-level array of envelopes,
                  \* each [id, name, budget]

vars == <<envelopes, transactions, nextEnvId, nextTxId, pc, req, loc, resp,
          scope, pending, pre, prev, calls, envelopesData>>

NoFailure == {FALSE}
MayFail == {FALSE, TRUE}

Tables == [envelopes |-> envelopes, transactions |-> transactions]
EmptyTables == [envelopes |-> << >>, transactions |-> << >>]
NoPrevious == [did |-> "other", id |-> 0, pre |-> EmptyTables, trip |-> FALSE]

Init ==
  /\ envelopes = << >>
  /\ transactions = << >>
  /\ nextEnvId = 1
  /\ nextTxId = 1
  /\ pc = [p \in Procs |-> "idle"]
  /\ req = [p \in Procs |-> NoRequest]
  /\ loc = [p \in Procs |-> NoLocals]
  /\ resp = [p \in Procs |-> NoResponse]
  /\ scope = [p \in Procs |-> "none"]
  /\ pending = [p \in Procs |-> << >>]
  /\ pre = [p \in Procs |-> EmptyTables]
  /\ prev = NoPrevious
  /\ calls = [p \in Procs |-> << >>]
  /\ envelopesData = << >>

\* ------------------------------------------------------- store primitives
\* Model.findByPk(id): the committed row, or null
FindEnvelope(id) ==
  IF id \in DOMAIN envelopes
    THEN [id |-> id, name |-> envelopes[id].name, balance |-> envelopes[id].balance]
    ELSE NoEnvelope

FindTransaction(id) ==
  IF id \in DOMAIN transactions
    THEN [id |-> id, date |-> transactions[id].date, amount |-> transactions[id].amount,
          recipient |-> transactions[id].recipient,
          envelopeId |-> transactions[id].envelopeId]
    ELSE NoTransaction

\* UPDATE Envelopes SET balance = b WHERE id = id (no row: nothing changes)
WithBalance(tbl, id, b) ==
  IF id \in DOMAIN tbl THEN [tbl EXCEPT ![id].balance = b] ELSE tbl

WithName(tbl, id, n) ==
  IF id \in DOMAIN tbl THEN [tbl EXCEPT ![id].name = n] ELSE tbl

\* INSERT of a row under a fresh id
WithRow(tbl, id, row) ==
  [i \in DOMAIN tbl \cup {id} |-> IF i = id THEN row ELSE tbl[i]]

\* DELETE ... WHERE id = id
WithoutRow(tbl, id) == [i \in DOMAIN tbl \ {id} |-> tbl[i]]

\* ------------------------------------------------------ handler plumbing
\* a request arrives and handler p starts on it
Receive(p, r) ==
  /\ pc[p] = "idle"
  /\ req' = [req EXCEPT ![p] = r]
  /\ pre' = [pre EXCEPT ![p] = Tables]
  /\ prev' = IF r.op = "deleteTransaction" /\ r.id = prev.id
               THEN prev ELSE NoPrevious
  /\ UNCHANGED <<loc, scope, pending, calls>>

\* a request arrives at a handler of the Sequelize routers, which do not
\* import the in-memory array
Arrive(p, r) ==
  /\ Receive(p, r)
  /\ UNCHANGED envelopesData

\* every stored balance is within the range the model explores
Bounded ==
  \A e \in DOMAIN envelopes :
    /\ envelopes[e].balance <= BalanceCap
    /\ envelopes[e].balance >= -BalanceCap

\* the handler of p has returned (or its promise was rejected): p is free
\* for the next request
Finish(p) ==
  /\ pc[p] \in {"done", "unhandled"}
  /\ pc' = [pc EXCEPT ![p] = "idle"]
  /\ req' = [req EXCEPT ![p] = NoRequest]
  /\ resp' = [resp EXCEPT ![p] = NoResponse]
  /\ loc' = [loc EXCEPT ![p] = NoLocals]
  /\ scope' = [scope EXCEPT ![p] = "none"]
  /\ pending' = [pending EXCEPT ![p] = << >>]
  /\ pre' = [pre EXCEPT ![p] = EmptyTables]
  /\ calls' = [calls EXCEPT ![p] = << >>]
  /\ prev' = IF req[p].op = "createTransaction" /\ resp[p].status = 201
               THEN [did |-> "created", id |-> nextTxId - 1, pre |-> pre[p],
                     trip |-> FALSE]
               ELSE IF req[p].op = "deleteTransaction" /\ resp[p].status = 200
                 THEN [did |-> "deleted", id |-> req[p].id, pre |-> EmptyTables,
                       trip |-> prev.did = "created"]
                 ELSE NoPrevious
  /\ UNCHANGED <<envelopes, transactions, nextEnvId, nextTxId, envelopesData>>

\* handler p makes the awaited store call of its position; the call
\* rejects when fail
Called(p, fail) ==
  /\ calls' = [calls EXCEPT ![p] = Append(@, [call |-> pc[p], threw |-> fail])]
  /\ UNCHANGED envelopesData

\* res.status(st).json({error: err}) and the handler returns
Respond(p, st, err) ==
  /\ pc' = [pc EXCEPT ![p] = "done"]
  /\ resp' = [resp EXCEPT ![p] = [status |-> st, error |-> err]]

Goto(p, label) ==
  /\ pc' = [pc EXCEPT ![p] = label]
  /\ resp' = [resp EXCEPT ![p] = NoResponse]

Stay(p, label) ==
  /\ pc' = [pc EXCEPT ![p] = label]
  /\ UNCHANGED resp

\* ------------------------------------------ POST /transactions (create)
AmountInputs == {Str("abc")} \cup {Num(n) : n \in -1..MaxAmount}
RecipientInputs == {Undefined, Str(""), Str("Target")}
EnvelopeIdInputs == {Undefined} \cup {Num(n) : n \in 1..MaxEnvs}
DateInputs == {Undefined}

\* date ? new Date(date) : new Date()
TransactionDate(date) == IF Truthy(date) THEN date.s ELSE "now"

\* a validation that does not look at the recipient
InvalidTransactionDataNoRecipient(amount, recipient, envelopeId) ==
  \/ ~IsNumber(amount)
  \/ ~Truthy(envelopeId)

\* !transactionDate || typeof amount !== 'number' || !recipient || !envelopeId
\* (a Date object is always truthy)
InvalidTransactionData(amount, recipient, envelopeId) ==
  \/ ~IsNumber(amount)
  \/ ~Truthy(recipient)
  \/ ~Truthy(envelopeId)

\* envelope.balance < amount
CreateInsufficient(balance, amount) == balance < amount

\* a debit applied twice
CreateDebitTwice(balance, amount) == balance - amount - amount

\* envelope.balance -= amount
CreateDebit(balance, amount) == balance - amount

PostTransaction(p) ==
  \E date \in DateInputs, amount \in AmountInputs,
     recipient \in RecipientInputs, envelopeId \in EnvelopeIdInputs :
    /\ nextTxId <= MaxTxs
    /\ Bounded
    /\ Arrive(p, [NoRequest EXCEPT !.op = "createTransaction", !.date = date,
                    !.amount = amount, !.recipient = recipient,
                    !.envelopeId = envelopeId])
    /\ IF InvalidTransactionData(amount, recipient, envelopeId)
         THEN Respond(p, 400, "Invalid transaction data")
         ELSE Goto(p, "createTransaction.findByPk")
    /\ UNCHANGED <<envelopes, transactions, nextEnvId, nextTxId>>

PostTransactionFind(p, F) ==
  /\ pc[p] = "createTransaction.findByPk"
  /\ \E fail \in F :
       /\ Called(p, fail)
       /\ LET envelope == FindEnvelope(req[p].envelopeId.n) IN
          IF fail
            THEN /\ Respond(p, 500, "Failed to create transaction")
                 /\ UNCHANGED loc
            ELSE IF envelope = NoEnvelope
              THEN /\ Respond(p, 404, "Envelope not found")
                   /\ UNCHANGED loc
              ELSE IF CreateInsufficient(envelope.balance, req[p].amount.n)
                THEN /\ Respond(p, 400, "Insufficient funds in envelope")
                     /\ UNCHANGED loc
                ELSE /\ Stay(p, "createTransaction.save")
                     /\ loc' = [loc EXCEPT ![p].envelope =
                          [envelope EXCEPT !.balance =
                             CreateDebit(envelope.balance, req[p].amount.n)]]
  /\ UNCHANGED <<envelopes, transactions, nextEnvId, nextTxId, req, scope,
                 pending, pre, prev>>

\* a save that is issued a second time after it has rejected once
PostTransactionSaveRetry(p, F) ==
  /\ pc[p] = "createTransaction.save"
  /\ \E fail \in F :
       /\ Called(p, fail)
       /\ IF fail
            THEN /\ IF calls[p][Len(calls[p])].threw
                      THEN Respond(p, 500, "Failed to create transaction")
                      ELSE Stay(p, "createTransaction.save")
                 /\ UNCHANGED envelopes
            ELSE /\ Stay(p, "createTransaction.create")
                 /\ envelopes' = WithBalance(envelopes, loc[p].envelope.id,
                                             loc[p].envelope.balance)
  /\ UNCHANGED <<transactions, nextEnvId, nextTxId, req, loc, scope, pending,
                 pre, prev>>

PostTransactionSave(p, F) ==
  /\ pc[p] = "createTransaction.save"
  /\ \E fail \in F :
       /\ Called(p, fail)
       /\ IF fail
            THEN /\ Respond(p, 500, "Failed to create transaction")
                 /\ UNCHANGED envelopes
            ELSE /\ Stay(p, "createTransaction.create")
                 /\ envelopes' = WithBalance(envelopes, loc[p].envelope.id,
                                             loc[p].envelope.balance)
  /\ UNCHANGED <<transactions, nextEnvId, nextTxId, req, loc, scope, pending,
                 pre, prev>>

\* a store that hands out the last assigned id again
LastTransactionId == IF nextTxId > 1 THEN nextTxId - 1 ELSE nextTxId

\* the id the store assigns to the row of Transaction.create (auto-increment)
AssignedTransactionId == nextTxId

PostTransactionCreate(p, F) ==
  /\ pc[p] = "createTransaction.create"
  /\ \E fail \in F :
       /\ Called(p, fail)
       /\ IF fail
            THEN /\ Respond(p, 500, "Failed to create transaction")
                 /\ UNCHANGED <<transactions, nextTxId>>
            ELSE /\ Respond(p, 201, "")
                 /\ transactions' = WithRow(transactions, AssignedTransactionId,
                      [date |-> TransactionDate(req[p].date),
                       amount |-> req[p].amount.n,
                       recipient |-> req[p].recipient.s,
                       envelopeId |-> req[p].envelopeId.n])
                 /\ nextTxId' = nextTxId + 1
  /\ UNCHANGED <<envelopes, nextEnvId, req, loc, scope, pending, pre, prev>>

\* ---------------------------------------- DELETE /transactions/:id
\* parseInt(req.params.id): the route ids the model draws are integers
TransactionIds == 1..MaxTxs

\* the balance is not restored
DeleteCreditNothing(balance, amount) == balance

\* a credit applied twice
DeleteCreditTwice(balance, amount) == balance + amount + amount

\* envelope.balance += transaction.amount
DeleteCredit(balance, amount) == balance + amount

DeleteTransaction(p) ==
  \E id \in TransactionIds :
    /\ Bounded
    /\ Arrive(p, [NoRequest EXCEPT !.op = "deleteTransaction", !.id = id])
    /\ Goto(p, "deleteTransaction.findByPk")
    /\ UNCHANGED <<envelopes, transactions, nextEnvId, nextTxId>>

DeleteTransactionFind(p, F) ==
  /\ pc[p] = "deleteTransaction.findByPk"
  /\ \E fail \in F :
       /\ Called(p, fail)
       /\ LET transaction == FindTransaction(req[p].id) IN
          IF fail
            THEN /\ Respond(p, 500, "Failed to delete transaction")
                 /\ UNCHANGED loc
            ELSE IF transaction = NoTransaction
              THEN /\ Respond(p, 404, "Transaction not found")
                   /\ UNCHANGED loc
              ELSE /\ Stay(p, "deleteTransaction.findEnvelope")
                   /\ loc' = [loc EXCEPT ![p].transaction = transaction]
  /\ UNCHANGED <<envelopes, transactions, nextEnvId, nextTxId, req, scope,
                 pending, pre, prev>>

DeleteTransactionFindEnvelope(p, F) ==
  /\ pc[p] = "deleteTransaction.findEnvelope"
  /\ \E fail \in F :
       /\ Called(p, fail)
       /\ LET envelope == FindEnvelope(loc[p].transaction.envelopeId) IN
          IF fail
            THEN /\ Respond(p, 500, "Failed to delete transaction")
                 /\ UNCHANGED loc
            ELSE IF envelope = NoEnvelope
              THEN /\ Respond(p, 404, "Associated envelope not found")
                   /\ UNCHANGED loc
              ELSE /\ Stay(p, "deleteTransaction.save")
                   /\ loc' = [loc EXCEPT ![p].envelope =
                        [envelope EXCEPT !.balance =
                           DeleteCredit(envelope.balance, loc[p].transaction.amount)]]
  /\ UNCHANGED <<envelopes, transactions, nextEnvId, nextTxId, req, scope,
                 pending, pre, prev>>

DeleteTransactionSave(p, F) ==
  /\ pc[p] = "deleteTransaction.save"
  /\ \E fail \in F :
       /\ Called(p, fail)
       /\ IF fail
            THEN /\ Respond(p, 500, "Failed to delete transaction")
                 /\ UNCHANGED envelopes
            ELSE /\ Stay(p, "deleteTransaction.destroy")
                 /\ envelopes' = WithBalance(envelopes, loc[p].envelope.id,
                                             loc[p].envelope.balance)
  /\ UNCHANGED <<transactions, nextEnvId, nextTxId, req, loc, scope, pending,
                 pre, prev>>

DeleteTransactionDestroy(p, F) ==
  /\ pc[p] = "deleteTransaction.destroy"
  /\ \E fail \in F :
       /\ Called(p, fail)
       /\ IF fail
            THEN /\ Respond(p, 500, "Failed to delete transaction")
                 /\ UNCHANGED transactions
            ELSE /\ Respond(p, 200, "")
                 /\ transactions' = WithoutRow(transactions, loc[p].transaction.id)
  /\ UNCHANGED <<envelopes, nextEnvId, nextTxId, req, loc, scope, pending,
                 pre, prev>>

\* ------------------------------------------- POST /envelopes/transfer
TransferIdInputs == {Str("1")} \cup {Num(n) : n \in 1..MaxEnvs}

\* a validation that does not look at the sign of the amount
InvalidTransferDataAnySign(fromId, toId, amount) ==
  \/ ~IsNumber(fromId)
  \/ ~IsNumber(toId)
  \/ ~IsNumber(amount)

\* typeof fromId !== 'number' || typeof toId !== 'number' ||
\* typeof amount !== 'number' || amount <= 0
InvalidTransferData(fromId, toId, amount) ==
  \/ ~IsNumber(fromId)
  \/ ~IsNumber(toId)
  \/ ~IsNumber(amount)
  \/ amount.n <= 0

\* a test that lets through an amount one above the balance
TransferInsufficientOffByOne(balance, amount) == balance + 1 < amount

\* fromEnvelope.balance < amount
TransferInsufficient(balance, amount) == balance < amount

\* the source is not debited
TransferDebitNothing(balance, amount) == balance

\* fromEnvelope.balance -= amount
TransferDebit(balance, amount) == balance - amount

\* toEnvelope.balance += amount
TransferCredit(balance, amount) == balance + amount

\* the save of the source without its transaction option
SaveFromOutsideScope == FALSE

\* fromEnvelope.save({ transaction: t })
SaveFromInScope == TRUE

\* toEnvelope.save({ transaction: t })
SaveToInScope == TRUE

\* the rows as the scope of p will leave them when it commits
Committed(tbl, writes) ==
  [i \in DOMAIN tbl |->
     IF i \in DOMAIN writes THEN [tbl[i] EXCEPT !.balance = writes[i]] ELSE tbl[i]]

PostTransfer(p) ==
  \E fromId \in TransferIdInputs, toId \in TransferIdInputs, amount \in AmountInputs :
    /\ Bounded
    /\ Arrive(p, [NoRequest EXCEPT !.op = "transfer", !.fromId = fromId,
                    !.toId = toId, !.amount = amount])
    /\ IF InvalidTransferData(fromId, toId, amount)
         THEN Respond(p, 400, "Invalid transfer data")
         ELSE Goto(p, "transfer.transaction")
    /\ UNCHANGED <<envelopes, transactions, nextEnvId, nextTxId>>

\* const t = await Envelope.sequelize.transaction(), outside the try block:
\* a rejection here reaches no catch and no response is sent
TransferBegin(p, F) ==
  /\ pc[p] = "transfer.transaction"
  /\ \E fail \in F :
       /\ Called(p, fail)
       /\ IF fail
            THEN /\ pc' = [pc EXCEPT ![p] = "unhandled"]
                 /\ UNCHANGED <<resp, scope>>
            ELSE /\ Stay(p, "transfer.findFrom")
                 /\ scope' = [scope EXCEPT ![p] = "open"]
  /\ UNCHANGED <<envelopes, transactions, nextEnvId, nextTxId, req, loc,
                 pending, pre, prev>>

TransferFindFrom(p, F) ==
  /\ pc[p] = "transfer.findFrom"
  /\ \E fail \in F :
       /\ Called(p, fail)
       /\ IF fail
            THEN /\ Respond(p, 500, "Transfer failed")
                 /\ UNCHANGED loc
            ELSE /\ Stay(p, "transfer.findTo")
                 /\ loc' = [loc EXCEPT ![p].fromEnvelope = FindEnvelope(req[p].fromId.n)]
  /\ UNCHANGED <<envelopes, transactions, nextEnvId, nextTxId, req, scope,
                 pending, pre, prev>>

TransferFindTo(p, F) ==
  /\ pc[p] = "transfer.findTo"
  /\ \E fail \in F :
       /\ Called(p, fail)
       /\ LET fromEnvelope == loc[p].fromEnvelope
              toEnvelope == FindEnvelope(req[p].toId.n)
              amount == req[p].amount.n
          IN
          IF fail
            THEN /\ Respond(p, 500, "Transfer failed")
                 /\ UNCHANGED loc
            ELSE IF fromEnvelope = NoEnvelope \/ toEnvelope = NoEnvelope
              THEN /\ Stay(p, "transfer.rollback")
                   /\ loc' = [loc EXCEPT ![p].toEnvelope = toEnvelope, ![p].after = 404]
              ELSE IF TransferInsufficient(fromEnvelope.balance, amount)
                THEN /\ Stay(p, "transfer.rollback")
                     /\ loc' = [loc EXCEPT ![p].toEnvelope = toEnvelope, ![p].after = 400]
                ELSE /\ Stay(p, "transfer.saveFrom")
                     /\ loc' = [loc EXCEPT
                          ![p].fromEnvelope.balance =
                             TransferDebit(fromEnvelope.balance, amount),
                          ![p].toEnvelope =
                             [toEnvelope EXCEPT !.balance =
                                TransferCredit(toEnvelope.balance, amount)]]
  /\ UNCHANGED <<envelopes, transactions, nextEnvId, nextTxId, req, scope,
                 pending, pre, prev>>

\* await t.rollback() on the 404 and the 400 path
TransferRollback(p, F) ==
  /\ pc[p] = "transfer.rollback"
  /\ \E fail \in F :
       /\ Called(p, fail)
       /\ IF fail
            THEN /\ Respond(p, 500, "Transfer failed")
                 /\ UNCHANGED <<scope, pending>>
            ELSE /\ Respond(p, loc[p].after,
                            IF loc[p].after = 404
                              THEN "One or both envelopes not found"
                              ELSE "Insufficient funds in source envelope")
                 /\ scope' = [scope EXCEPT ![p] = "rolledback"]
                 /\ pending' = [pending EXCEPT ![p] = << >>]
  /\ UNCHANGED <<envelopes, transactions, nextEnvId, nextTxId, req, loc, pre, prev>>

\* a save of one balance: into the scope of p when the call names it,
\* straight into the table otherwise
SaveBalance(p, inScope, envelope) ==
  IF inScope
    THEN /\ pending' = [pending EXCEPT ![p] =
                          WithRow(pending[p], envelope.id, envelope.balance)]
         /\ UNCHANGED envelopes
    ELSE /\ envelopes' = WithBalance(envelopes, envelope.id, envelope.balance)
         /\ UNCHANGED pending

TransferSaveFrom(p, F) ==
  /\ pc[p] = "transfer.saveFrom"
  /\ \E fail \in F :
       /\ Called(p, fail)
       /\ IF fail
            THEN /\ Respond(p, 500, "Transfer failed")
                 /\ UNCHANGED <<envelopes, pending>>
            ELSE /\ Stay(p, "transfer.saveTo")
                 /\ SaveBalance(p, SaveFromInScope, loc[p].fromEnvelope)
  /\ UNCHANGED <<transactions, nextEnvId, nextTxId, req, loc, scope, pre, prev>>

TransferSaveTo(p, F) ==
  /\ pc[p] = "transfer.saveTo"
  /\ \E fail \in F :
       /\ Called(p, fail)
       /\ IF fail
            THEN /\ Respond(p, 500, "Transfer failed")
                 /\ UNCHANGED <<envelopes, pending>>
            ELSE /\ Stay(p, "transfer.commit")
                 /\ SaveBalance(p, SaveToInScope, loc[p].toEnvelope)
  /\ UNCHANGED <<transactions, nextEnvId, nextTxId, req, loc, scope, pre, prev>>

\* await t.commit(): the writes of the scope reach the table together
TransferCommit(p, F) ==
  /\ pc[p] = "transfer.commit"
  /\ \E fail \in F :
       /\ Called(p, fail)
       /\ IF fail
            THEN /\ Respond(p, 500, "Transfer failed")
                 /\ UNCHANGED <<envelopes, scope, pending>>
            ELSE /\ Respond(p, 200, "")
                 /\ envelopes' = Committed(envelopes, pending[p])
                 /\ scope' = [scope EXCEPT ![p] = "committed"]
                 /\ pending' = [pending EXCEPT ![p] = << >>]
  /\ UNCHANGED <<transactions, nextEnvId, nextTxId, req, loc, pre, prev>>

\* ------------------------------------------------------ POST /envelopes
NameInputs == {Undefined, Str(""), Str("Rent")}
\* the names the update requests of a specification supply
KeptNames == {Undefined, Str("Rent")}
BalanceInputs == {Undefined, Str("abc")} \cup {Num(n) : n \in -1..MaxBalance}

\* !name || typeof balance !== 'number' || balance < 0
InvalidEnvelopeData(name, balance) ==
  \/ ~Truthy(name)
  \/ ~IsNumber(balance)
  \/ balance.n < 0

PostEnvelope(p) ==
  \E name \in NameInputs, balance \in BalanceInputs :
    /\ nextEnvId <= MaxEnvs
    /\ Arrive(p, [NoRequest EXCEPT !.op = "createEnvelope", !.name = name,
                    !.balance = balance])
    /\ IF InvalidEnvelopeData(name, balance)
         THEN Respond(p, 400, "Invalid envelope data")
         ELSE Goto(p, "createEnvelope.create")
    /\ UNCHANGED <<envelopes, transactions, nextEnvId, nextTxId>>

PostEnvelopeCreate(p, F) ==
  /\ pc[p] = "createEnvelope.create"
  /\ \E fail \in F :
       /\ Called(p, fail)
       /\ IF fail
            THEN /\ Respond(p, 500, "Failed to create envelope")
                 /\ UNCHANGED <<envelopes, nextEnvId>>
            ELSE /\ Respond(p, 201, "")
                 /\ envelopes' = WithRow(envelopes, nextEnvId,
                      [name |-> req[p].name.s, balance |-> req[p].balance.n])
                 /\ nextEnvId' = nextEnvId + 1
  /\ UNCHANGED <<transactions, nextTxId, req, loc, scope, pending, pre, prev>>

\* --------------------------------------------------- PUT /envelopes/:id
EnvelopeIds == 1..MaxEnvs

\* typeof balance !== 'number' || balance < 0
InvalidBalance(balance) == ~IsNumber(balance) \/ balance.n < 0

PutEnvelope(p, N) ==
  \E id \in EnvelopeIds, name \in N, balance \in BalanceInputs :
    /\ Arrive(p, [NoRequest EXCEPT !.op = "updateEnvelope", !.id = id,
                    !.name = name, !.balance = balance])
    /\ Goto(p, "updateEnvelope.findByPk")
    /\ UNCHANGED <<envelopes, transactions, nextEnvId, nextTxId>>

PutEnvelopeFind(p, F) ==
  /\ pc[p] = "updateEnvelope.findByPk"
  /\ \E fail \in F :
       /\ Called(p, fail)
       /\ LET envelope == FindEnvelope(req[p].id)
              name == req[p].name
              balance == req[p].balance
              named == IF name # Undefined
                         THEN [envelope EXCEPT !.name = name.s] ELSE envelope
          IN
          IF fail
            THEN /\ Respond(p, 500, "Failed to update envelope")
                 /\ UNCHANGED loc
            ELSE IF envelope = NoEnvelope
              THEN /\ Respond(p, 404, "Envelope not found")
                   /\ UNCHANGED loc
              ELSE IF balance # Undefined /\ InvalidBalance(balance)
                THEN /\ Respond(p, 400, "Invalid balance")
                     /\ loc' = [loc EXCEPT ![p].envelope = named]
                ELSE /\ Stay(p, "updateEnvelope.save")
                     /\ loc' = [loc EXCEPT ![p].envelope =
                          IF balance # Undefined
                            THEN [named EXCEPT !.balance = balance.n] ELSE named]
  /\ UNCHANGED <<envelopes, transactions, nextEnvId, nextTxId, req, scope,
                 pending, pre, prev>>

\* envelope.save(): the fields the handler assigned are written
PutEnvelopeSave(p, F) ==
  /\ pc[p] = "updateEnvelope.save"
  /\ \E fail \in F :
       /\ Called(p, fail)
       /\ LET id == loc[p].envelope.id
              named == IF req[p].name # Undefined
                         THEN WithName(envelopes, id, loc[p].envelope.name)
                         ELSE envelopes
          IN
          IF fail
            THEN /\ Respond(p, 500, "Failed to update envelope")
                 /\ UNCHANGED envelopes
            ELSE /\ Respond(p, 200, "")
                 /\ envelopes' = IF req[p].balance # Undefined
                                   THEN WithBalance(named, id, loc[p].envelope.balance)
                                   ELSE named
  /\ UNCHANGED <<transactions, nextEnvId, nextTxId, req, loc, scope, pending,
                 pre, prev>>

\* ------------------------------------------------ DELETE /envelopes/:id
DeleteEnvelope(p) ==
  \E id \in EnvelopeIds :
    /\ Arrive(p, [NoRequest EXCEPT !.op = "deleteEnvelope", !.id = id])
    /\ Goto(p, "deleteEnvelope.destroy")
    /\ UNCHANGED <<envelopes, transactions, nextEnvId, nextTxId>>

\* a destroy that cascades to the Transactions of the envelope
DeleteEnvelopeDestroyCascade(p, F) ==
  /\ pc[p] = "deleteEnvelope.destroy"
  /\ \E fail \in F :
       /\ Called(p, fail)
       /\ IF fail
            THEN /\ Respond(p, 500, "Failed to delete envelope")
                 /\ UNCHANGED <<envelopes, transactions>>
            ELSE IF req[p].id \notin DOMAIN envelopes
              THEN /\ Respond(p, 404, "Envelope not found")
                   /\ UNCHANGED <<envelopes, transactions>>
              ELSE /\ Respond(p, 200, "")
                   /\ envelopes' = WithoutRow(envelopes, req[p].id)
                   /\ transactions' =
                        [t \in {i \in DOMAIN transactions :
                                  transactions[i].envelopeId # req[p].id}
                           |-> transactions[t]]
  /\ UNCHANGED <<nextEnvId, nextTxId, req, loc, scope, pending, pre, prev>>

\* Envelope.destroy({ where: { id } }) and the deletedCount === 0 test
DeleteEnvelopeDestroy(p, F) ==
  /\ pc[p] = "deleteEnvelope.destroy"
  /\ \E fail \in F :
       /\ Called(p, fail)
       /\ IF fail
            THEN /\ Respond(p, 500, "Failed to delete envelope")
                 /\ UNCHANGED envelopes
            ELSE IF req[p].id \notin DOMAIN envelopes
              THEN /\ Respond(p, 404, "Envelope not found")
                   /\ UNCHANGED envelopes
              ELSE /\ Respond(p, 200, "")
                   /\ envelopes' = WithoutRow(envelopes, req[p].id)
  /\ UNCHANGED <<transactions, nextEnvId, nextTxId, req, loc, scope, pending,
                 pre, prev>>

\* ------------------------------- in-memory variant of the envelope routes
\* getNextId() of data/envelopesData: an id no element of the array has
GetNextId == Len(envelopesData) + 1

\* envelopes.find(env => env.id === envelopeId): the index of the first
\* element with the id, 0 when there is none
MemFind(id) ==
  LET found == {i \in 1..Len(envelopesData) : envelopesData[i].id = id} IN
  IF found = {} THEN 0 ELSE CHOOSE i \in found : \A j \in found : i <= j

\* !name || typeof budget !== 'number' || budget < 0
InvalidBudgetData(name, budget) ==
  \/ ~Truthy(name)
  \/ ~IsNumber(budget)
  \/ budget.n < 0

\* typeof budget !== 'number' || budget < 0
InvalidBudget(budget) ==
  \/ ~IsNumber(budget)
  \/ budget.n < 0

\* router.post('/') of the in-memory variant, a synchronous handler
MemPostEnvelope(p) ==
  \E name \in NameInputs, budget \in BalanceInputs :
    /\ Len(envelopesData) < MaxEnvs
    /\ Receive(p, [NoRequest EXCEPT !.op = "memCreateEnvelope", !.name = name,
                     !.budget = budget])
    /\ IF InvalidBudgetData(name, budget)
         THEN /\ Respond(p, 400, "Invalid envelope data")
              /\ UNCHANGED envelopesData
         ELSE /\ Respond(p, 201, "")
              /\ envelopesData' = Append(envelopesData,
                   [id |-> GetNextId, name |-> name.s, budget |-> budget.n])
    /\ UNCHANGED <<envelopes, transactions, nextEnvId, nextTxId>>

\* router.put('/:id') of the in-memory variant, a synchronous handler:
\* envelope is the element of the array itself, so envelope.name = name
\* is a write to the stored envelope, made before the budget is validated
MemPutEnvelope(p) ==
  \E id \in EnvelopeIds, name \in NameInputs, budget \in BalanceInputs :
    /\ Receive(p, [NoRequest EXCEPT !.op = "memUpdateEnvelope", !.id = id,
                     !.name = name, !.budget = budget])
    /\ LET i == MemFind(id)
           named == IF name # Undefined
                      THEN [envelopesData EXCEPT ![i].name = name.s]
                      ELSE envelopesData
       IN IF i = 0
            THEN /\ Respond(p, 404, "Envelope not found")
                 /\ UNCHANGED envelopesData
            ELSE IF budget # Undefined /\ InvalidBudget(budget)
              THEN /\ Respond(p, 400, "Invalid budget")
                   /\ envelopesData' = named
              ELSE /\ Respond(p, 200, "")
                   /\ envelopesData' =
                        IF budget # Undefined
                          THEN [named EXCEPT ![i].budget = budget.n]
                          ELSE named
    /\ UNCHANGED <<envelopes, transactions, nextEnvId, nextTxId>>

\* ------------------------------------------------------------------ spec
\* one step of handler p; F is the set of outcomes of a store call
\* (FALSE: it returns, TRUE: it throws)
Step(p, F, N) ==
  \/ PostTransaction(p)
  \/ PostTransactionFind(p, F)
  \/ PostTransactionSave(p, F)
  \/ PostTransactionCreate(p, F)
  \/ DeleteTransaction(p)
  \/ DeleteTransactionFind(p, F)
  \/ DeleteTransactionFindEnvelope(p, F)
  \/ DeleteTransactionSave(p, F)
  \/ DeleteTransactionDestroy(p, F)
  \/ PostTransfer(p)
  \/ TransferBegin(p, F)
  \/ TransferFindFrom(p, F)
  \/ TransferFindTo(p, F)
  \/ TransferRollback(p, F)
  \/ TransferSaveFrom(p, F)
  \/ TransferSaveTo(p, F)
  \/ TransferCommit(p, F)
  \/ PostEnvelope(p)
  \/ PostEnvelopeCreate(p, F)
  \/ PutEnvelope(p, N)
  \/ PutEnvelopeFind(p, F)
  \/ PutEnvelopeSave(p, F)
  \/ DeleteEnvelope(p)
  \/ DeleteEnvelopeDestroy(p, F)
  \/ Finish(p)

\* one request at a time, every store call returns
Next == \E p \in SeqProcs : Step(p, NoFailure, KeptNames)

Spec == Init /\ [][Next]_vars

\* one request at a time, any store call may throw
NextFail == \E p \in SeqProcs : Step(p, MayFail, KeptNames)

SpecFail == Init /\ [][NextFail]_vars

\* envelope create and envelope update requests only, an update may
\* supply any name
NextEnvelopes ==
  \E p \in SeqProcs :
    \/ PostEnvelope(p)
    \/ PostEnvelopeCreate(p, NoFailure)
    \/ PutEnvelope(p, NameInputs)
    \/ PutEnvelopeFind(p, NoFailure)
    \/ PutEnvelopeSave(p, NoFailure)
    \/ Finish(p)

SpecEnvelopes == Init /\ [][NextEnvelopes]_vars

\* a well-formed envelope create with the largest balance of the model
ConcPostEnvelope(p) ==
  /\ PostEnvelope(p)
  /\ pc'[p] # "done"
  /\ req'[p].balance.n = MaxBalance

\* a well-formed transaction create with a positive amount
ConcPostTransaction(p) ==
  /\ PostTransaction(p)
  /\ pc'[p] # "done"
  /\ req'[p].amount.n > 0

\* two requests in flight: handler 1 serves a sequence of requests, and
\* handler 2 serves one request that runs between the awaits of handler 1;
\* requests are well-formed and every store call returns
NextConc ==
  \/ \E p \in SeqProcs :
       \/ ConcPostEnvelope(p)
       \/ PostEnvelopeCreate(p, NoFailure)
       \/ Finish(p)
  \/ \E p \in Procs :
       \/ ConcPostTransaction(p)
       \/ PostTransactionFind(p, NoFailure)
       \/ PostTransactionSave(p, NoFailure)
       \/ PostTransactionCreate(p, NoFailure)
       \/ DeleteTransaction(p)
       \/ DeleteTransactionFind(p, NoFailure)
       \/ DeleteTransactionFindEnvelope(p, NoFailure)
       \/ DeleteTransactionSave(p, NoFailure)
       \/ DeleteTransactionDestroy(p, NoFailure)

SpecConc == Init /\ [][NextConc]_vars

\* a well-formed transfer request between two distinct envelopes
ConcPostTransfer(p) ==
  /\ PostTransfer(p)
  /\ pc'[p] # "done"
  /\ req'[p].fromId # req'[p].toId

\* transfers only, two in flight: handler 1 creates the envelopes and
\* serves a sequence of transfers, handler 2 serves one transfer that runs
\* between the awaits of handler 1; every store call returns
NextTransfers ==
  \/ \E p \in SeqProcs :
       \/ ConcPostEnvelope(p)
       \/ PostEnvelopeCreate(p, NoFailure)
       \/ Finish(p)
  \/ \E p \in Procs :
       \/ ConcPostTransfer(p)
       \/ TransferBegin(p, NoFailure)
       \/ TransferFindFrom(p, NoFailure)
       \/ TransferFindTo(p, NoFailure)
       \/ TransferRollback(p, NoFailure)
       \/ TransferSaveFrom(p, NoFailure)
       \/ TransferSaveTo(p, NoFailure)
       \/ TransferCommit(p, NoFailure)

SpecTransfers == Init /\ [][NextTransfers]_vars

\* the in-memory variant of the envelope routes, one request at a time
NextMem ==
  \E p \in SeqProcs :
    \/ MemPostEnvelope(p)
    \/ MemPutEnvelope(p)
    \/ Finish(p)

SpecMem == Init /\ [][NextMem]_vars

\* ================================================================ claims
\* the request handler p has answered
Answered(p, op) == pc[p] = "done" /\ req[p].op = op

\* C1: every stored envelope balance is >= 0 in every reachable state.
C1_BalancesNonNegative ==
  \A e \in DOMAIN envelopes : envelopes[e].balance >= 0

\* C2: a transfer answered 200 between two distinct envelopes has taken
\* exactly amount from the source and added exactly amount to the
\* destination, so the sum of the two balances is what it was before.
C2_TransferMovesAmount ==
  \A p \in SeqProcs :
    (/\ Answered(p, "transfer")
     /\ resp[p].status = 200
     /\ req[p].fromId # req[p].toId)
    => LET f == req[p].fromId.n
           t == req[p].toId.n
           a == req[p].amount.n
           was == pre[p].envelopes
       IN /\ {f, t} \subseteq DOMAIN was
          /\ {f, t} \subseteq DOMAIN envelopes
          /\ envelopes[f].balance = was[f].balance - a
          /\ envelopes[t].balance = was[t].balance + a
          /\ envelopes[f].balance + envelopes[t].balance
               = was[f].balance + was[t].balance

C2_Witness ==
  \E p \in SeqProcs :
    /\ Answered(p, "transfer")
    /\ resp[p].status = 200
    /\ req[p].fromId # req[p].toId
    /\ req[p].amount.n = MaxAmount
    /\ envelopes[req[p].toId.n].balance > envelopes[req[p].fromId.n].balance

\* a well-formed transfer request between two stored envelopes
\* whose amount is above the balance of the source
Overdrawn(p) ==
  /\ req[p].op = "transfer"
  /\ ~InvalidTransferData(req[p].fromId, req[p].toId, req[p].amount)
  /\ {req[p].fromId.n, req[p].toId.n} \subseteq DOMAIN pre[p].envelopes
  /\ req[p].amount.n > pre[p].envelopes[req[p].fromId.n].balance

\* C3: a transfer whose amount is above the balance of its source is
\* answered 400 "Insufficient funds" and no stored balance has changed,
\* in any state of its handling.
C3_OverdrawnTransferRefused ==
  \A p \in SeqProcs :
    Overdrawn(p)
    => /\ envelopes = pre[p].envelopes
       /\ pc[p] = "done"
            => /\ resp[p].status = 400
               /\ resp[p].error = "Insufficient funds in source envelope"

C3_Witness ==
  \E p \in SeqProcs :
    /\ Overdrawn(p)
    /\ pc[p] = "done"
    /\ pre[p].envelopes[req[p].fromId.n].balance > 0
    /\ req[p].fromId # req[p].toId

\* C4: while a transfer has not been answered 200, and after it has failed
\* at any store call, the committed rows of Envelopes are the rows of
\* before the transfer: no balance is debited or credited alone.
C4_FailedTransferChangesNothing ==
  \A p \in SeqProcs :
    (/\ req[p].op = "transfer"
     /\ ~(pc[p] = "done" /\ resp[p].status = 200))
    => envelopes = pre[p].envelopes

\* a transfer answered 500 after its source was saved inside the scope
C4_Witness ==
  \E p \in SeqProcs :
    /\ Answered(p, "transfer")
    /\ resp[p].status = 500
    /\ req[p].fromId # req[p].toId
    /\ req[p].fromId.n \in DOMAIN pending[p]
    /\ pending[p][req[p].fromId.n] # envelopes[req[p].fromId.n].balance

\* C5: when the transfer handler answers, the store transaction it opened
\* has been committed or rolled back.
C5_ScopeClosedAtResponse ==
  \A p \in SeqProcs :
    Answered(p, "transfer") => scope[p] \in {"none", "committed", "rolledback"}

\* C6: a transaction create answered 201 has reduced the balance of its
\* envelope by exactly amount, added exactly one record with the amount,
\* recipient and envelopeId of the request, and changed nothing else.
C6_CreateDebitsAndRecords ==
  \A p \in SeqProcs :
    (Answered(p, "createTransaction") /\ resp[p].status = 201)
    => LET e == req[p].envelopeId.n
           a == req[p].amount.n
           was == pre[p]
           new == DOMAIN transactions \ DOMAIN was.transactions
       IN /\ e \in DOMAIN was.envelopes
          /\ a <= was.envelopes[e].balance
          /\ envelopes = [was.envelopes EXCEPT ![e].balance = @ - a]
          /\ Cardinality(new) = 1
          /\ DOMAIN was.transactions \subseteq DOMAIN transactions
          /\ \A t \in DOMAIN was.transactions :
               transactions[t] = was.transactions[t]
          /\ \A t \in new :
               /\ transactions[t].amount = a
               /\ transactions[t].recipient = req[p].recipient.s
               /\ transactions[t].envelopeId = e

\* a create of a positive amount, with another record and another
\* envelope in the store
C6_Witness ==
  \E p \in SeqProcs :
    /\ Answered(p, "createTransaction")
    /\ resp[p].status = 201
    /\ req[p].amount.n > 0
    /\ Cardinality(DOMAIN transactions) = 2
    /\ Cardinality(DOMAIN envelopes) = 2

\* C7: when a transaction create of a positive amount has been answered,
\* the balance of an envelope has changed only if a Transaction record
\* was added.
C7_CreateIsOneUnit ==
  \A p \in SeqProcs :
    (/\ Answered(p, "createTransaction")
     /\ req[p].amount.n > 0
     /\ envelopes # pre[p].envelopes)
    => DOMAIN transactions # DOMAIN pre[p].transactions

\* C8: when the delete of a Transaction of a positive amount has been
\* answered, either the record is gone and its envelope is credited, or
\* both tables are as before.
C8_DeleteIsOneUnit ==
  \A p \in SeqProcs :
    (/\ Answered(p, "deleteTransaction")
     /\ req[p].id \in DOMAIN pre[p].transactions
     /\ pre[p].transactions[req[p].id].amount > 0)
    => \/ /\ envelopes = pre[p].envelopes
          /\ transactions = pre[p].transactions
       \/ /\ req[p].id \in DOMAIN pre[p].transactions
          /\ req[p].id \notin DOMAIN transactions
          /\ LET was == pre[p].transactions[req[p].id] IN
               /\ was.envelopeId \in DOMAIN pre[p].envelopes
               /\ envelopes = [pre[p].envelopes EXCEPT
                    ![was.envelopeId].balance = @ + was.amount]

\* C9: the delete of a stored Transaction whose envelope is stored is
\* answered 200, credits that envelope by exactly the amount and removes
\* exactly that record; the delete of an id that is not stored (as after a
\* first delete) is answered 404 and changes nothing; a delete directly
\* after the create of its record restores the tables of before the create.
C9_DeleteRestores ==
  \A p \in SeqProcs :
    Answered(p, "deleteTransaction")
    => LET id == req[p].id
           was == pre[p]
       IN /\ (/\ id \in DOMAIN was.transactions
              /\ was.transactions[id].envelopeId \in DOMAIN was.envelopes)
             => /\ resp[p].status = 200
                /\ envelopes = [was.envelopes EXCEPT
                     ![was.transactions[id].envelopeId].balance =
                        @ + was.transactions[id].amount]
                /\ transactions = WithoutRow(was.transactions, id)
          /\ id \notin DOMAIN was.transactions
             => /\ resp[p].status = 404
                /\ Tables = was
          /\ (prev.did = "deleted" /\ prev.id = id)
             => /\ resp[p].status = 404
                /\ Tables = was
          /\ (prev.did = "created" /\ prev.id = id)
             => /\ resp[p].status = 200
                /\ Tables = prev.pre

\* the second delete of a record that was created, then deleted
C9_Witness ==
  \E p \in SeqProcs :
    /\ Answered(p, "deleteTransaction")
    /\ prev.did = "deleted"
    /\ prev.id = req[p].id
    /\ prev.trip
    /\ resp[p].status = 404

\* C10: every stored Transaction record has amount > 0.
C10_AmountsPositive ==
  \A t \in DOMAIN transactions : transactions[t].amount > 0

\* the Transaction that the delete request of p names, as stored when the
\* request arrived, references no stored envelope
Orphaned(p) ==
  /\ req[p].op = "deleteTransaction"
  /\ req[p].id \in DOMAIN pre[p].transactions
  /\ pre[p].transactions[req[p].id].envelopeId \notin DOMAIN pre[p].envelopes

\* C14: the delete of a Transaction whose envelope is not stored is
\* answered 404 and changes no table at any point of its handling; an
\* envelope delete answered 200 removes exactly that envelope, and no
\* envelope delete changes the Transactions table.
C14_OrphanDeleteAndNoCascade ==
  \A p \in SeqProcs :
    /\ Orphaned(p)
       => /\ Tables = pre[p]
          /\ pc[p] = "done"
               => /\ resp[p].status = 404
                  /\ resp[p].error = "Associated envelope not found"
    /\ req[p].op = "deleteEnvelope"
       => /\ transactions = pre[p].transactions
          /\ (pc[p] = "done" /\ resp[p].status = 200)
               => envelopes = WithoutRow(pre[p].envelopes, req[p].id)
          /\ (pc[p] = "done" /\ resp[p].status # 200)
               => envelopes = pre[p].envelopes

\* the delete of an orphaned Transaction has been answered
C14_Witness ==
  \E p \in SeqProcs : Orphaned(p) /\ pc[p] = "done"

\* C18: every stored envelope has a non-empty name.
C18_NamesNonEmpty ==
  \A e \in DOMAIN envelopes : envelopes[e].name # ""

\* C20: no step changes a field of a Transaction record that is stored
\* before and after it.
C20_RecordsNeverUpdated ==
  [][\A t \in DOMAIN transactions \cap DOMAIN transactions' :
       transactions'[t] = transactions[t]]_vars

\* a delete has removed one record and left another one stored
C20_Witness ==
  \E p \in SeqProcs :
    /\ Answered(p, "deleteTransaction")
    /\ resp[p].status = 200
    /\ DOMAIN transactions # {}

\* the create request of p is malformed: its amount is not a number, its
\* recipient is empty or missing, or its envelopeId is missing
MalformedCreate(p) ==
  /\ req[p].op = "createTransaction"
  /\ \/ ~IsNumber(req[p].amount)
     \/ req[p].recipient \in {Undefined, Str("")}
     \/ req[p].envelopeId = Undefined

\* C15: a malformed create is answered 400 without any store call; a
\* well-formed create that names an envelope not stored is answered 404;
\* both store no record and change no balance.
C15_MalformedCreateRejected ==
  \A p \in SeqProcs :
    /\ MalformedCreate(p)
       => /\ pc[p] = "done"
          /\ resp[p].status = 400
          /\ calls[p] = << >>
          /\ Tables = pre[p]
    /\ (/\ req[p].op = "createTransaction"
        /\ ~MalformedCreate(p)
        /\ req[p].envelopeId.n \notin DOMAIN pre[p].envelopes)
       => /\ Tables = pre[p]
          /\ pc[p] = "done" => resp[p].status = 404

\* a create with an empty recipient has been answered
C15_Witness ==
  \E p \in SeqProcs :
    /\ Answered(p, "createTransaction")
    /\ req[p].recipient = Str("")
    /\ IsNumber(req[p].amount)
    /\ req[p].envelopeId # Undefined

\* the transfer request of p is malformed: fromId, toId or amount is not
\* a number, or the amount is not positive
MalformedTransfer(p) ==
  /\ req[p].op = "transfer"
  /\ \/ ~IsNumber(req[p].fromId)
     \/ ~IsNumber(req[p].toId)
     \/ ~IsNumber(req[p].amount)
     \/ req[p].amount.n <= 0

\* the well-formed transfer request of p names a source or a destination
\* that is not stored
AbsentTransferEnd(p) ==
  /\ req[p].op = "transfer"
  /\ ~MalformedTransfer(p)
  /\ \/ req[p].fromId.n \notin DOMAIN pre[p].envelopes
     \/ req[p].toId.n \notin DOMAIN pre[p].envelopes

\* C16: a malformed transfer is answered 400 with no scope opened and no
\* store call made; a transfer whose source or destination is not stored
\* is answered 404 with its scope rolled back; no balance changes.
C16_BadTransferRejected ==
  \A p \in SeqProcs :
    /\ MalformedTransfer(p)
       => /\ pc[p] = "done"
          /\ resp[p].status = 400
          /\ scope[p] = "none"
          /\ calls[p] = << >>
          /\ Tables = pre[p]
    /\ AbsentTransferEnd(p)
       => /\ Tables = pre[p]
          /\ pc[p] = "done"
               => /\ resp[p].status = 404
                  /\ scope[p] = "rolledback"

\* a transfer from a stored envelope to one that is not stored has been
\* answered
C16_Witness ==
  \E p \in SeqProcs :
    /\ AbsentTransferEnd(p)
    /\ pc[p] = "done"
    /\ req[p].fromId.n \in DOMAIN pre[p].envelopes

\* the last store call that handler p made has rejected
LastCallThrew(p) ==
  /\ calls[p] # << >>
  /\ calls[p][Len(calls[p])].threw

\* C19: a balance-mutating handler never ends without a response, and
\* once one of its store calls has rejected, the opening of the transfer's
\* scope included, it has answered with status 500 and an error message.
C19_FailureAnswered500 ==
  \A p \in SeqProcs :
    req[p].op \in {"createTransaction", "deleteTransaction", "transfer"}
      => /\ pc[p] # "unhandled"
         /\ LastCallThrew(p)
              => /\ pc[p] = "done"
                 /\ resp[p].status = 500
                 /\ resp[p].error # ""

\* the step is the whole in-memory update handler run by p
MemUpdateStep(p) ==
  /\ pc[p] = "idle"
  /\ pc'[p] = "done"
  /\ req'[p].op = "memUpdateEnvelope"

\* C17: an update of an id that is not stored is answered 404, an update
\* that supplies a budget that is not a number or is negative is answered
\* 400, and an update answered 404 or 400 leaves every stored envelope
\* as it was, name included.
C17_FailedUpdateChangesNothing ==
  [][\A p \in SeqProcs :
       MemUpdateStep(p)
         => /\ MemFind(req'[p].id) = 0 => resp'[p].status = 404
            /\ (/\ MemFind(req'[p].id) # 0
                /\ req'[p].budget # Undefined
                /\ (~IsNumber(req'[p].budget) \/ req'[p].budget.n < 0))
                 => resp'[p].status = 400
            /\ resp'[p].status \in {400, 404}
                 => envelopesData' = envelopesData]_vars

\* the step is the envelope.save() of the create that handler p runs
CreateSaveStep(p) ==
  /\ pc[p] = "createTransaction.save"
  /\ pc'[p] = "createTransaction.create"

\* the step is the envelope.save() of the delete that handler p runs
DeleteSaveStep(p) ==
  /\ pc[p] = "deleteTransaction.save"
  /\ pc'[p] = "deleteTransaction.destroy"

\* C11: at the moment a create writes its debit, its amount does not
\* exceed the balance stored for the envelope, under every interleaving
\* of two requests.
C11_DebitWithinStoredBalance ==
  [][\A p \in Procs :
       (CreateSaveStep(p) /\ loc[p].envelope.id \in DOMAIN envelopes)
         => req[p].amount.n <= envelopes[loc[p].envelope.id].balance]_vars

\* C12: no update is lost: every balance write of a create or a delete
\* applies its amount to the balance stored at the moment of the write,
\* so that the final balance is the initial one minus the creates plus
\* the deletes, under every interleaving of two requests.
C12_NoLostUpdate ==
  [][\A p \in Procs :
       /\ (CreateSaveStep(p) /\ loc[p].envelope.id \in DOMAIN envelopes)
            => envelopes'[loc[p].envelope.id].balance =
                 envelopes[loc[p].envelope.id].balance - req[p].amount.n
       /\ (DeleteSaveStep(p) /\ loc[p].envelope.id \in DOMAIN envelopes)
            => envelopes'[loc[p].envelope.id].balance =
                 envelopes[loc[p].envelope.id].balance
                   + loc[p].transaction.amount]_vars

\* handler p has made the envelope.save() call of a delete
Credited(p) ==
  \E i \in 1..Len(calls[p]) : calls[p][i].call = "deleteTransaction.save"

\* C13: of two deletes of the same Transaction id, at most one writes the
\* credit and at most one is answered 200, the other being answered 404.
C13_DeleteOnce ==
  \A p, q \in Procs :
    (/\ p # q
     /\ req[p].op = "deleteTransaction"
     /\ req[q].op = "deleteTransaction"
     /\ req[p].id = req[q].id)
      => /\ ~(Credited(p) /\ Credited(q))
         /\ (pc[p] = "done" /\ pc[q] = "done" /\ resp[p].status = 200)
              => resp[q].status = 404

\* the transfer request of p names one stored envelope as source and as
\* destination, with a positive amount that its balance covers
SelfTransfer(p) ==
  /\ req[p].op = "transfer"
  /\ ~MalformedTransfer(p)
  /\ req[p].fromId = req[p].toId
  /\ req[p].fromId.n \in DOMAIN pre[p].envelopes
  /\ req[p].amount.n <= pre[p].envelopes[req[p].fromId.n].balance

\* C21: a transfer from an envelope to itself leaves the stored balance of
\* that envelope, and every other one, as it was before the transfer.
C21_SelfTransferKeepsBalance ==
  \A p \in SeqProcs :
    (SelfTransfer(p) /\ pc[p] = "done") => envelopes = pre[p].envelopes

RECURSIVE SumBalances(_, _)
\* the sum of the balances of the envelopes of ids in table tbl
SumBalances(tbl, ids) ==
  IF ids = {} THEN 0
  ELSE LET e == CHOOSE i \in ids : TRUE
       IN tbl[e].balance + SumBalances(tbl, ids \ {e})

\* the sum of all stored balances
TotalBalance(tbl) == SumBalances(tbl, DOMAIN tbl)

\* the step is the t.commit() of a transfer between two distinct
\* envelopes that handler p runs
TransferCommitStep(p) ==
  /\ pc[p] = "transfer.commit"
  /\ pc'[p] = "done"
  /\ req[p].fromId # req[p].toId

\* C22: the commit of a transfer between two distinct envelopes leaves the
\* sum of all stored balances as it was, under every interleaving of two
\* transfers.
C22_TransfersConserveSum ==
  [][\A p \in Procs :
       TransferCommitStep(p)
         => TotalBalance(envelopes') = TotalBalance(envelopes)]_vars

RECURSIVE SumAmounts(_, _)
\* the sum of the amounts of the Transaction records of ids in table tbl
SumAmounts(tbl, ids) ==
  IF ids = {} THEN 0
  ELSE LET t == CHOOSE i \in ids : TRUE
       IN tbl[t].amount + SumAmounts(tbl, ids \ {t})

\* the balance of envelope e plus the amounts of the Transaction records
\* that reference e, in the tables tbls
Ledger(tbls, e) ==
  tbls.envelopes[e].balance
    + SumAmounts(tbls.transactions,
                 {t \in DOMAIN tbls.transactions :
                    tbls.transactions[t].envelopeId = e})

\* C23: with one request at a time and no store failure, a transaction
\* create or delete that has been answered leaves, for every envelope, the
\* balance plus the amounts of the Transaction records referencing it
\* equal to what it was when the request arrived; so the quantity is
\* constant over any sequence of creates and deletes.
C23_LedgerConstant ==
  \A p \in SeqProcs :
    (pc[p] = "done" /\ req[p].op \in {"createTransaction", "deleteTransaction"})
      => /\ DOMAIN envelopes = DOMAIN pre[p].envelopes
         /\ \A e \in DOMAIN envelopes : Ledger(Tables, e) = Ledger(pre[p], e)

\* a delete has been answered 200 while another record with a positive
\* amount still references the same envelope
C23_Witness ==
  \E p \in SeqProcs :
    /\ Answered(p, "deleteTransaction")
    /\ resp[p].status = 200
    /\ \E t \in DOMAIN transactions :
         /\ transactions[t].amount > 0
         /\ transactions[t].envelopeId
              = pre[p].transactions[req[p].id].envelopeId
         /\ transactions[t].envelopeId \in DOMAIN envelopes

\* the store calls that write: saves, the insert, the destroy, the commit
WriteCalls ==
  {"createTransaction.save", "createTransaction.create",
   "deleteTransaction.save", "deleteTransaction.destroy",
   "transfer.saveFrom", "transfer.saveTo", "transfer.commit"}

\* C24: a handler makes each of its store writes at most once, and after a
\* write that has rejected it makes no further write.
C24_WritesAttemptedOnce ==
  \A p \in SeqProcs :
    \A i, j \in 1..Len(calls[p]) :
      (/\ i < j
       /\ calls[p][i].call \in WriteCalls
       /\ calls[p][j].call \in WriteCalls)
        => /\ calls[p][j].call # calls[p][i].call
           /\ ~calls[p][i].threw

\* a handler has answered after its second write rejected
C24_Witness ==
  \E p \in SeqProcs :
    /\ pc[p] = "done"
    /\ LastCallThrew(p)
    /\ \E i \in 1..Len(calls[p]) - 1 : calls[p][i].call \in WriteCalls
    /\ calls[p][Len(calls[p])].call \in WriteCalls

====
